---- MODULE Spec2Model ----
(***************************************************************************)
(* Real-time bidding of the auction application: the Socket.io server of   *)
(* backend/server.js (join-auction, place-bid, disconnect) running against *)
(* the Auction and Bid collections, and the routes of routes/auctions.js    *)
(* that create, update and delete an auction. The connections of the base  *)
(* specification have passed the token check of io.use and carry their     *)
(* user id; the further specifications add one part of the program each.   *)
(*                                                                         *)
(* A place-bid handler is an async function: it runs to its next await,    *)
(* and the store performs the awaited operation at some later instant, in  *)
(* any interleaving with the other handlers, the clock and the sockets.    *)
(* Each handler step below is one such instant.                            *)
(***************************************************************************)
EXTENDS Integers, Sequences, FiniteSets, TLC

(* ---- bounds of the model ---------------------------------------------- *)
NumConns == 2          \* socket connections, connection c carries user c
MaxSubs == 2           \* place-bid messages received in one behaviour
NumAuctions == 1       \* auction documents in the collection
StartingPrice == 100   \* startingPrice of the stored auctions
EndTime == 1           \* endTime of the stored auctions, in clock ticks

MaxTime == EndTime + 1
Conns == 1..NumConns
Subs == 1..MaxSubs
AuctionIds == 1..NumAuctions
\* ids a client may name: the stored auctions and one id with no document
TargetIds == 1..(NumAuctions + 1)
\* bidAmount values a client may send: the starting price and two raises. A
\* bid below the stored price is one of these sent after a higher one was saved
Amounts == {StartingPrice, StartingPrice + 10, StartingPrice + 20}
\* the user of connection c (decoded.id of its token)
UserOf(c) == c
\* null of highestBidder
NoUser == 0
\* the seller of the stored auctions, a user with no connection
Seller == NumConns + 1

VARIABLES
  now,        \* the server clock, new Date()
  auctions,   \* Auction collection: id -> document
  bids,       \* Bid collection: set of documents
  sockets,    \* connection -> "open" | "closed"
  rooms,      \* connection -> set of auction ids whose room it joined
  rejoined,   \* history: connection -> the rooms it asked to join while in them
  handlers,   \* submission -> the place-bid handler's position and locals, and
              \* (history) how often it has inserted a Bid and updated the auction
  inbox,      \* connection -> sequence of events delivered to the client
  commits     \* history: the writes of currentPrice, in order

vars == <<now, auctions, bids, sockets, rooms, rejoined, handlers, inbox, commits>>

Statuses == {"active", "ended", "cancelled"}

\* findById of an id with no document resolves to null
NoDoc ==
  [exists |-> FALSE, status |-> "none", currentPrice |-> 0, startingPrice |-> 0,
   highestBidder |-> NoUser, endTime |-> 0, seller |-> NoUser, bidCount |-> 0,
   title |-> "none"]

\* the document Auction.create stores: currentPrice = startingPrice, and the
\* schema defaults status 'active', highestBidder null, bidCount 0
NewAuction(seller, st) ==
  [exists |-> TRUE, status |-> st, currentPrice |-> StartingPrice,
   startingPrice |-> StartingPrice, highestBidder |-> NoUser,
   endTime |-> EndTime, seller |-> seller, bidCount |-> 0, title |-> "created"]

IdleHandler ==
  [pc |-> "idle", conn |-> 0, auctionId |-> 0, bidAmount |-> 0, late |-> FALSE,
   auction |-> NoDoc, result |-> "", bidSaves |-> 0, auctionSaves |-> 0,
   user |-> NoUser]

Event(type, s, a, price, msg) ==
  [type |-> type, sub |-> s, auctionId |-> a, currentPrice |-> price, message |-> msg]

\* the server is up with its connections open and no room joined; the
\* collection holds freshly created auctions, with any status of the schema
Init ==
  /\ now = 0
  /\ \E st \in Statuses :
       auctions = [a \in TargetIds |->
                     IF a \in AuctionIds THEN NewAuction(Seller, st) ELSE NoDoc]
  /\ bids = {}
  /\ sockets = [c \in Conns |-> "open"]
  /\ rooms = [c \in Conns |-> {}]
  /\ rejoined = [c \in Conns |-> {}]
  /\ handlers = [s \in Subs |-> IdleHandler]
  /\ inbox = [c \in Conns |-> <<>>]
  /\ commits = <<>>

(* ---- the clock --------------------------------------------------------- *)
Tick ==
  /\ now < MaxTime
  /\ now' = now + 1
  /\ UNCHANGED <<auctions, bids, sockets, rooms, rejoined, handlers, inbox, commits>>

(* ---- connections ------------------------------------------------------- *)
\* socket.on('join-auction'): socket.join adds the room to the socket's set.
\* Only rooms of stored auctions are joined here: no event is ever sent to the
\* room of an id that has no document.
JoinAuction(c, a) ==
  /\ sockets[c] = "open"
  /\ rooms' = [rooms EXCEPT ![c] = @ \cup {a}]
  /\ rejoined' = [rejoined EXCEPT ![c] = IF a \in rooms[c] THEN @ \cup {a} ELSE @]
  /\ UNCHANGED <<now, auctions, bids, sockets, handlers, inbox, commits>>

\* Disconnect with the socket left in the rooms it had joined
DisconnectKeepsRooms(c) ==
  /\ sockets[c] = "open"
  /\ sockets' = [sockets EXCEPT ![c] = "closed"]
  /\ UNCHANGED <<now, auctions, bids, rooms, rejoined, handlers, inbox, commits>>

\* socket.on('disconnect'): the handler only logs; Socket.io has left the
\* socket's rooms before it runs
Disconnect(c) ==
  /\ sockets[c] = "open"
  /\ sockets' = [sockets EXCEPT ![c] = "closed"]
  /\ rooms' = [rooms EXCEPT ![c] = {}]
  /\ rejoined' = [rejoined EXCEPT ![c] = {}]
  /\ UNCHANGED <<now, auctions, bids, handlers, inbox, commits>>

\* the close of a connection signalled again: the disconnect handler, which
\* only logs, runs once more on a socket that is in no room
DisconnectAgain(c) ==
  /\ sockets[c] = "closed"
  /\ sockets' = [sockets EXCEPT ![c] = "closed"]
  /\ rooms' = [rooms EXCEPT ![c] = {}]
  /\ rejoined' = [rejoined EXCEPT ![c] = {}]
  /\ UNCHANGED <<now, auctions, bids, handlers, inbox, commits>>

(* ---- delivery of events ------------------------------------------------ *)
\* EmitToSocket as an emit to the socket and to the room of the event's auction
EmitToSocketAndRoom(c, ev) ==
  [d \in Conns |->
     IF sockets[d] = "open" /\ (d = c \/ ev.auctionId \in rooms[d])
       THEN Append(inbox[d], ev) ELSE inbox[d]]

\* socket.emit: to this socket, if it is still connected
EmitToSocket(c, ev) ==
  [d \in Conns |-> IF d = c /\ sockets[c] = "open" THEN Append(inbox[d], ev) ELSE inbox[d]]

\* EmitToRoom as io.emit: to every connected socket, whatever its rooms
EmitToAllSockets(a, ev) ==
  [d \in Conns |-> IF sockets[d] = "open" THEN Append(inbox[d], ev) ELSE inbox[d]]

\* EmitToRoom with one delivery per join-auction the member has sent
EmitToRoomPerJoin(a, ev) ==
  [d \in Conns |->
     IF sockets[d] = "open" /\ a \in rooms[d]
       THEN IF a \in rejoined[d] THEN inbox[d] \o <<ev, ev>> ELSE Append(inbox[d], ev)
       ELSE inbox[d]]

\* io.to(`auction-${a}`).emit: to every connected socket in the room
EmitToRoom(a, ev) ==
  [d \in Conns |-> IF sockets[d] = "open" /\ a \in rooms[d] THEN Append(inbox[d], ev) ELSE inbox[d]]

\* the handler ends with socket.emit('bid-error', { message })
BidError(s, msg) ==
  /\ handlers' = [handlers EXCEPT ![s].pc = "done", ![s].result = msg, ![s].auction = NoDoc]
  /\ inbox' = EmitToSocket(handlers[s].conn,
                           Event("bid-error", s, handlers[s].auctionId, 0, msg))

(* ---- socket.on('place-bid') -------------------------------------------- *)
\* the message arrives: the handler destructures it and calls findById.
\* Submissions are numbered in arrival order; late records (history) that the
\* message arrived after the end time of the auction it names.
PlaceBid(s, c, a, amt) ==
  /\ sockets[c] = "open"
  /\ handlers[s].pc = "idle"
  /\ \A t \in Subs : t < s => handlers[t].pc # "idle"
  /\ handlers' = [handlers EXCEPT ![s] =
       [IdleHandler EXCEPT !.pc = "findById", !.conn = c, !.auctionId = a,
                           !.bidAmount = amt,
                           !.late = (auctions[a].exists /\ now > auctions[a].endTime)]]
  /\ UNCHANGED <<now, auctions, bids, sockets, rooms, rejoined, inbox, commits>>

\* await Auction.findById(auctionId): the store reads the document, or fails
FindById(s, ok) ==
  /\ handlers[s].pc = "findById"
  /\ IF ok
       THEN /\ handlers' = [handlers EXCEPT ![s].pc = "validate",
                                            ![s].auction = auctions[handlers[s].auctionId]]
            /\ UNCHANGED inbox
       ELSE BidError(s, "store error")
  /\ UNCHANGED <<now, auctions, bids, sockets, rooms, rejoined, commits>>

\* Rejection with the price check written < : a bid equal to the price passes
RejectionTiePasses(doc, amt, t) ==
  IF ~doc.exists THEN "Auction not found"
  ELSE IF doc.status # "active" THEN "Auction is not active"
  ELSE IF t > doc.endTime THEN "Auction has ended"
  ELSE IF amt < doc.currentPrice THEN "Bid must be higher than current price"
  ELSE ""

\* Rejection without the comparison of the clock with endTime
RejectionNoEndTime(doc, amt, t) ==
  IF ~doc.exists THEN "Auction not found"
  ELSE IF doc.status # "active" THEN "Auction is not active"
  ELSE IF amt <= doc.currentPrice THEN "Bid must be higher than current price"
  ELSE ""

\* Rejection without the check of the stored status
RejectionNoStatus(doc, amt, t) ==
  IF ~doc.exists THEN "Auction not found"
  ELSE IF t > doc.endTime THEN "Auction has ended"
  ELSE IF amt <= doc.currentPrice THEN "Bid must be higher than current price"
  ELSE ""

\* the rejection the checks of lines 68-86 select for a snapshot, "" for none
Rejection(doc, amt, t) ==
  IF ~doc.exists THEN "Auction not found"
  ELSE IF doc.status # "active" THEN "Auction is not active"
  ELSE IF t > doc.endTime THEN "Auction has ended"
  ELSE IF amt <= doc.currentPrice THEN "Bid must be higher than current price"
  ELSE ""

\* Validate with the return after the status check's bid-error missing: the
\* handler reports the error and goes on to bid.save()
ValidateNoReturn(s) ==
  /\ handlers[s].pc = "validate"
  /\ LET r == Rejection(handlers[s].auction, handlers[s].bidAmount, now)
     IN IF r = "Auction is not active"
          THEN /\ handlers' = [handlers EXCEPT ![s].pc = "bidSave", ![s].result = r]
               /\ inbox' = EmitToSocket(handlers[s].conn,
                                        Event("bid-error", s, handlers[s].auctionId, 0, r))
          ELSE IF r # ""
            THEN BidError(s, r)
            ELSE /\ handlers' = [handlers EXCEPT ![s].pc = "bidSave"]
                 /\ UNCHANGED inbox
  /\ UNCHANGED <<now, auctions, bids, sockets, rooms, rejoined, commits>>

\* the handler resumes with the document it read: the four checks, then
\* new Bid(...) and the call of bid.save()
Validate(s) ==
  /\ handlers[s].pc = "validate"
  /\ LET r == Rejection(handlers[s].auction, handlers[s].bidAmount, now)
     IN IF r # ""
          THEN BidError(s, r)
          ELSE /\ handlers' = [handlers EXCEPT ![s].pc = "bidSave"]
               /\ UNCHANGED inbox
  /\ UNCHANGED <<now, auctions, bids, sockets, rooms, rejoined, commits>>

\* BidSave without the insert: the handler goes on as if the Bid were stored
BidSaveSkipped(s, ok) ==
  /\ handlers[s].pc = "bidSave"
  /\ handlers' = [handlers EXCEPT ![s].pc = "auctionSave"]
  /\ UNCHANGED <<now, auctions, bids, sockets, rooms, rejoined, inbox, commits>>

\* await bid.save(): the store inserts the Bid document, or fails; then the
\* handler assigns currentPrice and highestBidder on its copy and calls
\* auction.save()
BidSave(s, ok) ==
  /\ handlers[s].pc = "bidSave"
  /\ IF ok
       THEN /\ bids' = bids \cup {[id |-> s, auction |-> handlers[s].auctionId,
                                   bidder |-> UserOf(handlers[s].conn),
                                   amount |-> handlers[s].bidAmount]}
            /\ handlers' = [handlers EXCEPT ![s].pc = "auctionSave", ![s].bidSaves = @ + 1]
            /\ UNCHANGED inbox
       ELSE /\ BidError(s, "store error")
            /\ UNCHANGED bids
  /\ UNCHANGED <<now, auctions, sockets, rooms, rejoined, commits>>

\* what auction.save() stores: Mongoose sends the paths the handler changed
\* on its copy. currentPrice always changed (the bid exceeded the copy's
\* price); highestBidder changed unless the copy already named this user.
SavedAuction(stored, copy, amt, user) ==
  [stored EXCEPT !.currentPrice = amt,
                 !.highestBidder = IF copy.highestBidder = user THEN @ ELSE user]

\* AuctionSave as an update of every stored auction
AuctionSaveEveryDoc(s, ok) ==
  /\ handlers[s].pc = "auctionSave"
  /\ auctions' = [a \in DOMAIN auctions |->
       IF auctions[a].exists
         THEN SavedAuction(auctions[a], handlers[s].auction, handlers[s].bidAmount,
                           UserOf(handlers[s].conn))
         ELSE auctions[a]]
  /\ handlers' = [handlers EXCEPT ![s].pc = "populate", ![s].auctionSaves = @ + 1,
                                  ![s].auction = NoDoc]
  /\ UNCHANGED <<now, bids, sockets, rooms, rejoined, inbox, commits>>

\* await auction.save(): the store updates the document by id, or fails
AuctionSave(s, ok) ==
  /\ handlers[s].pc = "auctionSave"
  /\ LET a == handlers[s].auctionId
         stored == auctions[a]
     IN IF ok /\ stored.exists
          THEN /\ auctions' = [auctions EXCEPT ![a] =
                     SavedAuction(stored, handlers[s].auction, handlers[s].bidAmount,
                                  UserOf(handlers[s].conn))]
               /\ commits' = Append(commits,
                     [sub |-> s, auctionId |-> a, amount |-> handlers[s].bidAmount,
                      before |-> stored.currentPrice, at |-> now, status |-> stored.status,
                      endTime |-> stored.endTime])
               /\ handlers' = [handlers EXCEPT ![s].pc = "populate", ![s].auctionSaves = @ + 1,
                                               ![s].auction = NoDoc]
               /\ UNCHANGED inbox
          ELSE /\ BidError(s, "store error")
               /\ UNCHANGED <<auctions, commits>>
  /\ UNCHANGED <<now, bids, sockets, rooms, rejoined>>

\* PopulateAndEmit with the broadcast left out once the submitter is gone
PopulateEmitIfConnected(s, ok) ==
  /\ handlers[s].pc = "populate"
  /\ handlers' = [handlers EXCEPT ![s].pc = "done", ![s].result = "new-bid"]
  /\ inbox' = IF sockets[handlers[s].conn] = "open"
                THEN EmitToRoom(handlers[s].auctionId,
                       Event("new-bid", s, handlers[s].auctionId, handlers[s].bidAmount, ""))
                ELSE inbox
  /\ UNCHANGED <<now, auctions, bids, sockets, rooms, rejoined, commits>>

\* await Bid.findById(bid._id).populate(...), then the broadcast of new-bid
\* to the auction's room; a failed query ends in the catch block
PopulateAndEmit(s, ok) ==
  /\ handlers[s].pc = "populate"
  /\ IF ok
       THEN /\ handlers' = [handlers EXCEPT ![s].pc = "done", ![s].result = "new-bid"]
            /\ inbox' = EmitToRoom(handlers[s].auctionId,
                                   Event("new-bid", s, handlers[s].auctionId,
                                         handlers[s].bidAmount, ""))
       ELSE BidError(s, "store error")
  /\ UNCHANGED <<now, auctions, bids, sockets, rooms, rejoined, commits>>

Next ==
  \/ Tick
  \/ \E c \in Conns : \E a \in AuctionIds : JoinAuction(c, a)
  \/ \E c \in Conns : Disconnect(c)
  \/ \E s \in Subs : \E c \in Conns : \E a \in TargetIds : \E amt \in Amounts : PlaceBid(s, c, a, amt)
  \/ \E s \in Subs : \E ok \in BOOLEAN : FindById(s, ok)
  \/ \E s \in Subs : Validate(s)
  \/ \E s \in Subs : \E ok \in BOOLEAN : BidSave(s, ok)
  \/ \E s \in Subs : \E ok \in BOOLEAN : AuctionSave(s, ok)
  \/ \E s \in Subs : \E ok \in BOOLEAN : PopulateAndEmit(s, ok)

Spec == Init /\ [][Next]_vars

\* the same server where the last client also joins the room of the id that
\* has no document, a room other than those of the stored auctions
OtherRoomConns == {NumConns}

NextRooms ==
  \/ Next
  \/ \E c \in OtherRoomConns : \E a \in TargetIds \ AuctionIds :
       a \notin rooms[c] /\ JoinAuction(c, a)

SpecRooms == Init /\ [][NextRooms]_vars

(* ---- the handshake ------------------------------------------------------ *)
\* socket.handshake.auth.token of a connection attempt: absent, signed by
\* this server and unexpired, or anything else
Tokens == {"none", "signed", "forged"}

\* jwt.verify(token, secret): returns the payload of a token this server
\* signed, throws for any other
JwtVerify(token) == token = "signed"

\* Connect with every token that is present accepted unverified
ConnectWithoutVerify(c) ==
  /\ sockets[c] \in Tokens
  /\ IF sockets[c] # "none"
       THEN /\ sockets' = [sockets EXCEPT ![c] = "open"]
            /\ inbox' = inbox
       ELSE /\ sockets' = [sockets EXCEPT ![c] = "rejected"]
            /\ inbox' = [inbox EXCEPT ![c] =
                 Append(@, Event("connect_error", 0, 0, 0, "Authentication error"))]
  /\ UNCHANGED <<now, auctions, bids, rooms, rejoined, handlers, commits>>

\* io.use middleware, run for a connection attempt whose socket state is the
\* token it offers: next() lets the connection handler register the events,
\* next(new Error('Authentication error')) refuses the connection
Connect(c) ==
  /\ sockets[c] \in Tokens
  /\ IF sockets[c] # "none" /\ JwtVerify(sockets[c])
       THEN /\ sockets' = [sockets EXCEPT ![c] = "open"]
            /\ inbox' = inbox
       ELSE /\ sockets' = [sockets EXCEPT ![c] = "rejected"]
            /\ inbox' = [inbox EXCEPT ![c] =
                 Append(@, Event("connect_error", 0, 0, 0, "Authentication error"))]
  /\ UNCHANGED <<now, auctions, bids, rooms, rejoined, handlers, commits>>

\* the server before any handshake has been answered
InitAuth ==
  /\ now = 0
  /\ \E st \in Statuses :
       auctions = [a \in TargetIds |->
                    IF a \in AuctionIds THEN NewAuction(Seller, st) ELSE NoDoc]
  /\ bids = {}
  /\ sockets \in [Conns -> Tokens]
  /\ rooms = [c \in Conns |-> {}]
  /\ rejoined = [c \in Conns |-> {}]
  /\ handlers = [s \in Subs |-> IdleHandler]
  /\ inbox = [c \in Conns |-> <<>>]
  /\ commits = <<>>

NextAuth ==
  \/ Next
  \/ \E c \in Conns : Connect(c)

SpecAuth == InitAuth /\ [][NextAuth]_vars

\* the same server where the close of a connection may be signalled again
NextClose ==
  \/ Next
  \/ \E c \in Conns : DisconnectAgain(c)

SpecClose == Init /\ [][NextClose]_vars

(* ---- many bids of one client ------------------------------------------- *)
\* max of bidLimiter: the bids one client may place in a window of one minute
BidsPerMinute == 10
\* place-bid handlers of that client running at once
RateInFlight == 2
\* one submission more than the limit allows
RateSubs == 1..(BidsPerMinute + 1)
\* the s-th bid raises the starting price by s
RateAmount(s) == StartingPrice + s

\* the server with one active auction, before the first of the bids
InitRate ==
  /\ now = 0
  /\ auctions = [a \in TargetIds |->
                  IF a \in AuctionIds THEN NewAuction(Seller, "active") ELSE NoDoc]
  /\ bids = {}
  /\ sockets = [c \in Conns |-> "open"]
  /\ rooms = [c \in Conns |-> {}]
  /\ rejoined = [c \in Conns |-> {}]
  /\ handlers = [s \in RateSubs |-> IdleHandler]
  /\ inbox = [c \in Conns |-> <<>>]
  /\ commits = <<>>

\* connection 1 sends its bids on auction 1 one after another, all within
\* one instant of the clock, and the store answers every operation
NextRate ==
  \/ \E s \in RateSubs :
       /\ \A t \in RateSubs : t < s => handlers[t].pc # "idle"
       /\ Cardinality({t \in RateSubs : handlers[t].pc \notin {"idle", "done"}}) < RateInFlight
       /\ PlaceBid(s, 1, 1, RateAmount(s))
  \/ \E s \in RateSubs : FindById(s, TRUE)
  \/ \E s \in RateSubs : Validate(s)
  \/ \E s \in RateSubs : BidSave(s, TRUE)
  \/ \E s \in RateSubs : AuctionSave(s, TRUE)
  \/ \E s \in RateSubs : PopulateAndEmit(s, TRUE)

SpecRate == InitRate /\ [][NextRate]_vars

(* ---- amounts that are no bid ------------------------------------------- *)
\* bidAmount values that are numbers but not positive: zero and a negative
MalformedAmounts == {0, 0 - StartingPrice}

\* the same server where clients also send such amounts
NextMalformed ==
  \/ Next
  \/ \E s \in Subs : \E c \in Conns : \E a \in TargetIds : \E amt \in MalformedAmounts :
       PlaceBid(s, c, a, amt)

SpecMalformed == Init /\ [][NextMalformed]_vars

(* ---- a message with no payload ----------------------------------------- *)
\* socket.on('place-bid') called with data undefined or null: the
\* destructuring in the first line of the handler, above its try, throws and
\* the async handler's promise rejects with nobody to catch it. Node either
\* only reports the rejection, or (its default since version 15) ends the
\* process, which closes every connection and abandons the handlers running.
PlaceBidNoPayload(s, c, exits) ==
  /\ sockets[c] = "open"
  /\ handlers[s].pc = "idle"
  /\ \A t \in Subs : t < s => handlers[t].pc # "idle"
  /\ IF exits
       THEN /\ handlers' = [t \in Subs |->
                 IF t = s
                   THEN [IdleHandler EXCEPT !.pc = "done", !.conn = c, !.result = "TypeError"]
                   ELSE IF handlers[t].pc \in {"idle", "done"}
                          THEN handlers[t]
                          ELSE [handlers[t] EXCEPT !.pc = "done", !.result = "process exit",
                                                   !.auction = NoDoc]]
            /\ sockets' = [d \in Conns |-> "closed"]
            /\ rooms' = [d \in Conns |-> {}]
            /\ rejoined' = [d \in Conns |-> {}]
       ELSE /\ handlers' = [handlers EXCEPT ![s] =
                 [IdleHandler EXCEPT !.pc = "done", !.conn = c, !.result = "TypeError"]]
            /\ UNCHANGED <<sockets, rooms, rejoined>>
  /\ UNCHANGED <<now, auctions, bids, inbox, commits>>

NextPayload ==
  \/ Next
  \/ \E s \in Subs : \E c \in Conns : \E exits \in BOOLEAN : PlaceBidNoPayload(s, c, exits)

SpecPayload == Init /\ [][NextPayload]_vars

\* the server with two active auctions: the ids of TargetIds all have a
\* document, and the last client may join the room of the second
InitTwoAuctions ==
  /\ now = 0
  /\ auctions = [a \in TargetIds |-> NewAuction(Seller, "active")]
  /\ bids = {}
  /\ sockets = [c \in Conns |-> "open"]
  /\ rooms = [c \in Conns |-> {}]
  /\ rejoined = [c \in Conns |-> {}]
  /\ handlers = [s \in Subs |-> IdleHandler]
  /\ inbox = [c \in Conns |-> <<>>]
  /\ commits = <<>>

SpecTwoAuctions == InitTwoAuctions /\ [][NextRooms]_vars

(* ---- the REST routes of an auction ------------------------------------- *)
\* a user with role 'admin', who is no seller and holds no connection
Admin == NumConns + 2
IsAdmin(u) == u = Admin
\* the users who send the requests: a bidder, the seller and the admin
RestUsers == {UserOf(1), Seller, Admin}

\* Authorized with no check at all
AuthorizedAnyone(doc, u) == TRUE

\* the check of PUT and DELETE: the requester is the seller, or an admin
Authorized(doc, u) == ~(doc.seller # u /\ ~IsAdmin(u))

\* res.status(code).json(...): the request is answered
Respond(s, code) ==
  handlers' = [handlers EXCEPT ![s].pc = "done", ![s].result = code, ![s].auction = NoDoc]

\* PUT /api/auctions/:id arrives (past apiLimiter and protect) and calls
\* findById. A request takes a place in the order of arrival as a bid does.
PutRequest(s, u, a) ==
  /\ handlers[s].pc = "idle"
  /\ \A t \in Subs : t < s => handlers[t].pc # "idle"
  /\ handlers' = [handlers EXCEPT ![s] =
       [IdleHandler EXCEPT !.pc = "putFind", !.user = u, !.auctionId = a]]
  /\ UNCHANGED <<now, auctions, bids, sockets, rooms, rejoined, inbox, commits>>

\* await Auction.findById, then the 404 and 403 returns; an authorized
\* request assigns the fields of the body to its copy and calls save
PutFindById(s, ok) ==
  /\ handlers[s].pc = "putFind"
  /\ LET doc == auctions[handlers[s].auctionId]
     IN IF ~ok THEN Respond(s, "500")
        ELSE IF ~doc.exists THEN Respond(s, "404")
        ELSE IF ~Authorized(doc, handlers[s].user) THEN Respond(s, "403")
        ELSE handlers' = [handlers EXCEPT ![s].pc = "putSave", ![s].auction = doc]
  /\ UNCHANGED <<now, auctions, bids, sockets, rooms, rejoined, inbox, commits>>

\* SavedByPut with the whole copy written back
SavedByPutWholeDoc(stored, copy) == [copy EXCEPT !.title = "edited"]

\* what the save of PUT stores: Mongoose sends the paths the handler changed
\* on its copy, which are among title, description, category and image
SavedByPut(stored, copy) == [stored EXCEPT !.title = "edited"]

\* await auction.save(): the store updates the document by id, or fails (a
\* document deleted meanwhile is not found); then the handler reads it back
PutSave(s, ok) ==
  /\ handlers[s].pc = "putSave"
  /\ LET a == handlers[s].auctionId
     IN IF ok /\ auctions[a].exists
          THEN /\ auctions' = [auctions EXCEPT ![a] = SavedByPut(auctions[a], handlers[s].auction)]
               /\ handlers' = [handlers EXCEPT ![s].pc = "putRespond"]
          ELSE /\ Respond(s, "500")
               /\ UNCHANGED auctions
  /\ UNCHANGED <<now, bids, sockets, rooms, rejoined, inbox, commits>>

\* await Auction.findById(...).populate(...), then res.json
PutRespond(s, ok) ==
  /\ handlers[s].pc = "putRespond"
  /\ Respond(s, IF ok THEN "200" ELSE "500")
  /\ UNCHANGED <<now, auctions, bids, sockets, rooms, rejoined, inbox, commits>>

\* DELETE /api/auctions/:id arrives and calls findById
DeleteRequest(s, u, a) ==
  /\ handlers[s].pc = "idle"
  /\ \A t \in Subs : t < s => handlers[t].pc # "idle"
  /\ handlers' = [handlers EXCEPT ![s] =
       [IdleHandler EXCEPT !.pc = "delFind", !.user = u, !.auctionId = a]]
  /\ UNCHANGED <<now, auctions, bids, sockets, rooms, rejoined, inbox, commits>>

\* await Auction.findById, then the 404 and 403 returns; an authorized
\* request calls Bid.deleteMany
DeleteFindById(s, ok) ==
  /\ handlers[s].pc = "delFind"
  /\ LET doc == auctions[handlers[s].auctionId]
     IN IF ~ok THEN Respond(s, "500")
        ELSE IF ~doc.exists THEN Respond(s, "404")
        ELSE IF ~Authorized(doc, handlers[s].user) THEN Respond(s, "403")
        ELSE handlers' = [handlers EXCEPT ![s].pc = "delBids"]
  /\ UNCHANGED <<now, auctions, bids, sockets, rooms, rejoined, inbox, commits>>

\* await Bid.deleteMany({ auction: id }): the Bid records stored for the
\* auction at this instant are removed, or the store fails
DeleteBids(s, ok) ==
  /\ handlers[s].pc = "delBids"
  /\ IF ok
       THEN /\ bids' = {x \in bids : x.auction # handlers[s].auctionId}
            /\ handlers' = [handlers EXCEPT ![s].pc = "delDoc"]
       ELSE /\ Respond(s, "500")
            /\ UNCHANGED bids
  /\ UNCHANGED <<now, auctions, sockets, rooms, rejoined, inbox, commits>>

\* await auction.deleteOne(), then res.json: the request has completed
DeleteDoc(s, ok) ==
  /\ handlers[s].pc = "delDoc"
  /\ IF ok
       THEN /\ auctions' = [auctions EXCEPT ![handlers[s].auctionId] = NoDoc]
            /\ Respond(s, "deleted")
       ELSE /\ Respond(s, "500")
            /\ UNCHANGED auctions
  /\ UNCHANGED <<now, bids, sockets, rooms, rejoined, inbox, commits>>

\* POST /api/auctions with a valid body whose endTime is in the future:
\* Auction.create stores a document under a fresh id, one no request has named
CreateAuction(u, a) ==
  /\ now < EndTime
  /\ ~auctions[a].exists
  /\ \A s \in Subs : handlers[s].auctionId # a
  /\ auctions' = [auctions EXCEPT ![a] = NewAuction(u, "active")]
  /\ UNCHANGED <<now, bids, sockets, rooms, rejoined, handlers, inbox, commits>>

\* the server with its auctions active, bidding and serving the routes
InitRest ==
  /\ now = 0
  /\ auctions = [a \in TargetIds |->
                  IF a \in AuctionIds THEN NewAuction(Seller, "active") ELSE NoDoc]
  /\ bids = {}
  /\ sockets = [c \in Conns |-> "open"]
  /\ rooms = [c \in Conns |-> {}]
  /\ rejoined = [c \in Conns |-> {}]
  /\ handlers = [s \in Subs |-> IdleHandler]
  /\ inbox = [c \in Conns |-> <<>>]
  /\ commits = <<>>

\* the connections stay open and join a room once
NextRest ==
  \/ Tick
  \/ \E c \in Conns : \E a \in AuctionIds : a \notin rooms[c] /\ JoinAuction(c, a)
  \/ \E s \in Subs : \E c \in Conns : \E a \in TargetIds : \E amt \in Amounts : PlaceBid(s, c, a, amt)
  \/ \E s \in Subs : \E ok \in BOOLEAN : FindById(s, ok)
  \/ \E s \in Subs : Validate(s)
  \/ \E s \in Subs : \E ok \in BOOLEAN : BidSave(s, ok)
  \/ \E s \in Subs : \E ok \in BOOLEAN : AuctionSave(s, ok)
  \/ \E s \in Subs : \E ok \in BOOLEAN : PopulateAndEmit(s, ok)
  \/ \E s \in Subs : \E u \in RestUsers : \E a \in TargetIds : PutRequest(s, u, a)
  \/ \E s \in Subs : \E ok \in BOOLEAN : PutFindById(s, ok)
  \/ \E s \in Subs : \E ok \in BOOLEAN : PutSave(s, ok)
  \/ \E s \in Subs : \E ok \in BOOLEAN : PutRespond(s, ok)
  \/ \E s \in Subs : \E u \in RestUsers : \E a \in TargetIds : DeleteRequest(s, u, a)
  \/ \E s \in Subs : \E ok \in BOOLEAN : DeleteFindById(s, ok)
  \/ \E s \in Subs : \E ok \in BOOLEAN : DeleteBids(s, ok)
  \/ \E s \in Subs : \E ok \in BOOLEAN : DeleteDoc(s, ok)
  \/ \E u \in RestUsers : \E a \in TargetIds \ AuctionIds : CreateAuction(u, a)

SpecRest == InitRest /\ [][NextRest]_vars

\* the same server with auctions whose seller holds connection 1
InitSellerConnected ==
  /\ now = 0
  /\ \E st \in Statuses :
       auctions = [a \in TargetIds |->
                     IF a \in AuctionIds THEN NewAuction(UserOf(1), st) ELSE NoDoc]
  /\ bids = {}
  /\ sockets = [c \in Conns |-> "open"]
  /\ rooms = [c \in Conns |-> {}]
  /\ rejoined = [c \in Conns |-> {}]
  /\ handlers = [s \in Subs |-> IdleHandler]
  /\ inbox = [c \in Conns |-> <<>>]
  /\ commits = <<>>

SpecSellerConnected == InitSellerConnected /\ [][Next]_vars

TypeOK ==
  /\ now \in 0..MaxTime
  /\ \A c \in Conns : sockets[c] \in {"open", "closed"}
  /\ \A c \in Conns : rooms[c] \subseteq AuctionIds
  /\ \A s \in Subs : handlers[s].pc \in
       {"idle", "findById", "validate", "bidSave", "auctionSave", "populate", "done"}
(* ======================================================================= *)
(* Properties                                                              *)
(* ======================================================================= *)
Done(s) == handlers[s].pc = "done"
AllDone == \A s \in Subs : Done(s)
Max(S) == CHOOSE x \in S : \A y \in S : y <= x
\* the events of one submission delivered to one connection
EventsOf(c, s) == {i \in DOMAIN inbox[c] : inbox[c][i].sub = s}
NewBidsOf(c, s) == {i \in EventsOf(c, s) : inbox[c][i].type = "new-bid"}

\* C1: for one auction, the prices written to currentPrice by accepted bids
\* are strictly increasing in the order they are written, whatever the
\* interleaving of the handlers.
CommittedPricesStrictlyIncreasing ==
  \A i, j \in DOMAIN commits :
    (i < j /\ commits[i].auctionId = commits[j].auctionId)
      => commits[i].amount < commits[j].amount

\* the bids were all processed to a decision: none met a store failure or the clock
DecidedOnPrice(s) ==
  /\ Done(s)
  /\ handlers[s].result \in {"new-bid", "Bid must be higher than current price"}
\* the submissions made to auction a
SubsOn(a) == {s \in Subs : handlers[s].pc # "idle" /\ handlers[s].auctionId = a}
\* the scenario of two simultaneous bids of +10 and +20 by different bidders
TwoBidScenario(s, t) ==
  /\ handlers[s].auctionId = 1 /\ handlers[t].auctionId = 1
  /\ handlers[s].bidAmount = StartingPrice + 10
  /\ handlers[t].bidAmount = StartingPrice + 20
  /\ handlers[s].conn # handlers[t].conn
  /\ UserOf(handlers[s].conn) # Seller /\ UserOf(handlers[t].conn) # Seller
  /\ SubsOn(1) = {s, t}
  /\ DecidedOnPrice(s) /\ DecidedOnPrice(t)

\* C2: with an active auction at the starting price and two simultaneous bids
\* of +10 and +20 by different non-seller bidders, the final currentPrice is
\* the +20 amount and highestBidder its bidder in every interleaving; in
\* general, once every submitted bid is processed, currentPrice is the
\* maximum of the starting price and the submitted amounts.
FinalPriceIsMaximum ==
  /\ \A s, t \in Subs :
       TwoBidScenario(s, t) =>
         /\ auctions[1].currentPrice = StartingPrice + 20
         /\ auctions[1].highestBidder = UserOf(handlers[t].conn)
  /\ \A a \in AuctionIds :
       (SubsOn(a) # {} /\ \A s \in SubsOn(a) : DecidedOnPrice(s)) =>
         auctions[a].currentPrice =
           Max({auctions[a].startingPrice} \cup {handlers[s].bidAmount : s \in SubsOn(a)})

\* the handler has read the auction and has not yet written it or rejected
Deciding(s) == handlers[s].pc \in {"validate", "bidSave", "auctionSave"}

\* C3: bid decisions are serialized per auction: at most one place-bid
\* handler is between its read of the auction and its write or rejection.
OneDecisionInFlightPerAuction ==
  \A s, t \in Subs :
    (s # t /\ Deciding(s) /\ Deciding(t)) => handlers[s].auctionId # handlers[t].auctionId

\* C4: every accepted bid exceeds the currentPrice stored at the instant its
\* price is written.
CommitExceedsStoredPrice ==
  \A i \in DOMAIN commits : commits[i].amount > commits[i].before
\* C5: every place-bid of a client that stays connected yields exactly one
\* outcome event for that client, its own new-bid or one bid-error: never
\* both, and never none once the handler has finished.
ExactlyOneOutcomePerSubmission ==
  \A s \in Subs :
    handlers[s].pc # "idle" =>
      /\ Cardinality(EventsOf(handlers[s].conn, s)) <= 1
      /\ (Done(s) /\ sockets[handlers[s].conn] = "open")
           => Cardinality(EventsOf(handlers[s].conn, s)) = 1

\* C6: a new-bid event exists only for a submission whose Bid document and
\* auction update have both been stored, it carries that bid's auction and
\* amount, and no submission stores more than one Bid or updates the auction
\* more than once.
NewBidOnlyAfterOneCommit ==
  /\ \A s \in Subs : handlers[s].bidSaves <= 1 /\ handlers[s].auctionSaves <= 1
  /\ \A c \in Conns : \A i \in DOMAIN inbox[c] :
       inbox[c][i].type = "new-bid" =>
         /\ handlers[inbox[c][i].sub].bidSaves = 1
         /\ handlers[inbox[c][i].sub].auctionSaves = 1
         /\ Cardinality({b \in bids : b.id = inbox[c][i].sub}) = 1
         /\ \A b \in bids : b.id = inbox[c][i].sub =>
              /\ b.amount = inbox[c][i].currentPrice
              /\ b.auction = inbox[c][i].auctionId
         /\ Cardinality({k \in DOMAIN commits : commits[k].sub = inbox[c][i].sub}) = 1
         /\ \A k \in DOMAIN commits : commits[k].sub = inbox[c][i].sub =>
              commits[k].amount = inbox[c][i].currentPrice

\* a new-bid event has been delivered to a member of the room
NewBidDelivered ==
  \E c \in Conns : \E i \in DOMAIN inbox[c] : inbox[c][i].type = "new-bid"

\* the step in which handler s leaves its validation
Validates(s) == handlers[s].pc = "validate" /\ handlers'[s].pc # "validate"
\* in that step the store is untouched and the only event is a bid-error to
\* the submitter, delivered if it is still connected
OnlyBidErrorToSubmitter(s) ==
  /\ auctions' = auctions /\ bids' = bids /\ commits' = commits
  /\ handlers'[s].bidSaves = 0 /\ handlers'[s].auctionSaves = 0
  /\ \A c \in Conns :
       IF c = handlers[s].conn /\ sockets[c] = "open"
         THEN /\ Len(inbox'[c]) = Len(inbox[c]) + 1
              /\ SubSeq(inbox'[c], 1, Len(inbox[c])) = inbox[c]
              /\ inbox'[c][Len(inbox'[c])].type = "bid-error"
              /\ inbox'[c][Len(inbox'[c])].sub = s
              /\ inbox'[c][Len(inbox'[c])].message = handlers'[s].result
         ELSE inbox'[c] = inbox[c]

\* C7: a place-bid whose amount equals the price of the auction it read is
\* rejected with a bid-error (the too-low one when the auction is active and
\* not past its end time): price, highest bidder and bids stay as they are
\* and no new-bid is sent.
TieIsRejected ==
  [][\A s \in Subs :
       (/\ Validates(s)
        /\ handlers[s].auction.exists
        /\ handlers[s].bidAmount = handlers[s].auction.currentPrice)
       => /\ handlers'[s].pc = "done"
          /\ handlers'[s].result \in {"Auction is not active", "Auction has ended",
                                      "Bid must be higher than current price"}
          /\ (handlers[s].auction.status = "active" /\ now <= handlers[s].auction.endTime)
               => handlers'[s].result = "Bid must be higher than current price"
          /\ OnlyBidErrorToSubmitter(s)]_vars

\* a bid equal to the stored price, which no bid has yet raised, was refused as too low
TieWasRejected ==
  \E s \in Subs :
    /\ Done(s)
    /\ handlers[s].result = "Bid must be higher than current price"
    /\ auctions[handlers[s].auctionId].exists
    /\ handlers[s].bidAmount = auctions[handlers[s].auctionId].currentPrice
    /\ commits = <<>>

ValidationRejections ==
  {"Auction not found", "Auction is not active", "Auction has ended",
   "Bid must be higher than current price"}

\* what the claim lists: no auction, not active, past the end time, or an
\* amount not above the price, of the document the handler read
MustReject(s) ==
  \/ ~handlers[s].auction.exists
  \/ handlers[s].auction.status # "active"
  \/ now > handlers[s].auction.endTime
  \/ handlers[s].bidAmount <= handlers[s].auction.currentPrice

\* a handler that ended in a validation rejection has stored nothing and
\* caused no new-bid
RejectedStoredNothing(s) ==
  (Done(s) /\ handlers[s].result \in ValidationRejections) =>
    /\ handlers[s].bidSaves = 0 /\ handlers[s].auctionSaves = 0
    /\ \A b \in bids : b.id # s
    /\ \A k \in DOMAIN commits : commits[k].sub # s
    /\ \A c \in Conns : NewBidsOf(c, s) = {}

\* C8: a place-bid rejected by validation (auction not found, not active,
\* past its end time, or amount not above the price) leaves currentPrice,
\* highestBidder and bidCount unchanged, creates no Bid and causes no new-bid.
RejectionChangesNothing ==
  /\ [](\A s \in Subs : RejectedStoredNothing(s))
  /\ [][\A s \in Subs :
          (Validates(s) /\ MustReject(s))
          => /\ handlers'[s].pc = "done"
             /\ handlers'[s].result \in ValidationRejections
             /\ OnlyBidErrorToSubmitter(s)]_vars

\* two bids were rejected, one for a missing auction and one on the
\* auction's state, the latter with an amount above the stored price
TwoKindsRejected ==
  \E s, t \in Subs :
    /\ Done(s) /\ handlers[s].result = "Auction not found"
    /\ Done(t) /\ handlers[t].result \in {"Auction is not active", "Auction has ended"}
    /\ handlers[t].bidAmount > auctions[handlers[t].auctionId].currentPrice

\* C9: a place-bid that arrives after the auction's end time never stores a
\* Bid, never changes the price and causes no new-bid; it ends in a
\* rejection, which is the auction-closed error whenever the auction was
\* read ('Auction has ended' while the stored status is still active).
LateBidIsRejected ==
  \A s \in Subs :
    handlers[s].late =>
      /\ handlers[s].pc \in {"findById", "validate", "done"}
      /\ handlers[s].bidSaves = 0 /\ handlers[s].auctionSaves = 0
      /\ \A b \in bids : b.id # s
      /\ \A k \in DOMAIN commits : commits[k].sub # s
      /\ \A c \in Conns : NewBidsOf(c, s) = {}
      /\ Done(s) => handlers[s].result \in
                      {"Auction has ended", "Auction is not active", "store error"}
      /\ (Done(s) /\ handlers[s].result # "store error"
            /\ auctions[handlers[s].auctionId].status = "active")
           => handlers[s].result = "Auction has ended"

\* a bid above the stored price of a still-active auction arrived after the
\* end time and was refused
LateHigherBidRejected ==
  \E s \in Subs :
    /\ handlers[s].late /\ Done(s)
    /\ handlers[s].result = "Auction has ended"
    /\ auctions[handlers[s].auctionId].status = "active"
    /\ handlers[s].bidAmount > auctions[handlers[s].auctionId].currentPrice

\* C10: currentPrice is written only at an instant when the stored auction
\* is active and the clock is before endTime (deadline exclusive).
PriceWrittenOnlyWhileOpen ==
  \A i \in DOMAIN commits :
    commits[i].status = "active" /\ commits[i].at < commits[i].endTime
\* handler s has stored nothing, written no price and caused no new-bid
StoredNothing(s) ==
  /\ handlers[s].pc \in {"findById", "validate", "done"}
  /\ handlers[s].bidSaves = 0 /\ handlers[s].auctionSaves = 0
  /\ \A b \in bids : b.id # s
  /\ \A k \in DOMAIN commits : commits[k].sub # s
  /\ \A c \in Conns : NewBidsOf(c, s) = {}

\* C11: the status of an auction changes only from active to ended or
\* cancelled, never out of those two; a place-bid on an ended or cancelled
\* auction is rejected with a bid-error and stores nothing.
TerminalStatusRejectsBids ==
  /\ [][\A a \in AuctionIds :
          auctions'[a].status # auctions[a].status =>
            /\ auctions[a].status = "active"
            /\ auctions'[a].status \in {"ended", "cancelled"}]_vars
  /\ [](\A s \in Subs :
          (/\ handlers[s].pc # "idle"
           /\ handlers[s].auctionId \in AuctionIds
           /\ auctions[handlers[s].auctionId].status \in {"ended", "cancelled"})
          => /\ StoredNothing(s)
             /\ Done(s) => handlers[s].result \in {"Auction is not active", "store error"})

\* a bid above the price of a cancelled auction, made before its end time,
\* was refused as not active
BidOnCancelledRejected ==
  \E s \in Subs :
    /\ Done(s) /\ ~handlers[s].late
    /\ handlers[s].result = "Auction is not active"
    /\ auctions[handlers[s].auctionId].status = "cancelled"
    /\ handlers[s].bidAmount > auctions[handlers[s].auctionId].currentPrice
    /\ now <= auctions[handlers[s].auctionId].endTime

\* C12: once a bid attempt on an auction past its end time has been refused,
\* the stored status of that auction is 'ended'.
ExpiredAuctionIsEndedAfterBid ==
  \A s \in Subs :
    (handlers[s].late /\ Done(s) /\ handlers[s].result = "Auction has ended")
      => auctions[handlers[s].auctionId].status = "ended"
\* C13: a place-bid by the auction's seller is rejected whatever its amount
\* and changes neither price nor highest bidder, so highestBidder is never
\* the seller.
SellerNeverBids ==
  /\ \A a \in AuctionIds : auctions[a].highestBidder # auctions[a].seller
  /\ \A k \in DOMAIN commits :
       UserOf(handlers[commits[k].sub].conn) # auctions[commits[k].auctionId].seller
  /\ \A s \in Subs :
       (/\ Done(s)
        /\ handlers[s].auctionId \in AuctionIds
        /\ UserOf(handlers[s].conn) = auctions[handlers[s].auctionId].seller)
       => handlers[s].result # "new-bid"
\* C14: the new-bid of an accepted bid on auction X is delivered to every
\* connection that is in room auction-X when it is emitted and to no other
\* connection, members of other rooms included.
NewBidToRoomMembersOnly ==
  [][\A s \in Subs :
       (handlers[s].pc = "populate" /\ handlers'[s].result = "new-bid")
       => \A c \in Conns :
            IF sockets[c] = "open" /\ handlers[s].auctionId \in rooms[c]
              THEN /\ Len(inbox'[c]) = Len(inbox[c]) + 1
                   /\ SubSeq(inbox'[c], 1, Len(inbox[c])) = inbox[c]
                   /\ inbox'[c][Len(inbox'[c])].type = "new-bid"
                   /\ inbox'[c][Len(inbox'[c])].sub = s
                   /\ inbox'[c][Len(inbox'[c])].auctionId = handlers[s].auctionId
                   /\ inbox'[c][Len(inbox'[c])].currentPrice = handlers[s].bidAmount
              ELSE inbox'[c] = inbox[c]]_vars

\* a member of the bid's room received the new-bid while a connected member
\* of another room received nothing
OtherRoomHeardNothing ==
  \E s \in Subs : \E c, d \in Conns :
    /\ Done(s) /\ handlers[s].result = "new-bid"
    /\ NewBidsOf(c, s) # {}
    /\ sockets[d] = "open" /\ rooms[d] # {}
    /\ handlers[s].auctionId \notin rooms[d]
    /\ inbox[d] = <<>>
\* C15: every bid-error a connection has received was caused by a place-bid
\* that this same connection submitted; no other connection, member of the
\* auction's room or not, receives it.
BidErrorOnlyToSubmitter ==
  \A c \in Conns : \A k \in DOMAIN inbox[c] :
    inbox[c][k].type = "bid-error"
    => /\ handlers[inbox[c][k].sub].conn = c
       /\ \A d \in Conns \ {c} : \A j \in DOMAIN inbox[d] :
            ~(inbox[d][j].type = "bid-error" /\ inbox[d][j].sub = inbox[c][k].sub)

\* a bid on a stored auction was rejected and its submitter told so, while
\* another connected member of that auction's room received no bid-error
RoomMemberSawNoBidError ==
  \E s \in Subs : \E d \in Conns :
    /\ Done(s) /\ handlers[s].result \notin {"", "new-bid"}
    /\ handlers[s].auctionId \in AuctionIds
    /\ d # handlers[s].conn
    /\ \E k \in DOMAIN inbox[handlers[s].conn] :
         /\ inbox[handlers[s].conn][k].type = "bid-error"
         /\ inbox[handlers[s].conn][k].sub = s
    /\ sockets[d] = "open" /\ handlers[s].auctionId \in rooms[d]
    /\ \A j \in DOMAIN inbox[d] : inbox[d][j].type # "bid-error"
\* C16: a connection that sends join-auction again for a room it is already
\* in stays a member of that room once (its membership does not change), and
\* it receives exactly one new-bid for each accepted bid emitted to that room.
JoinAuctionIsIdempotent ==
  /\ [][\A c \in Conns :
          /\ (rejoined'[c] # rejoined[c] /\ sockets'[c] = "open") => rooms'[c] = rooms[c]
          /\ \A s \in Subs :
               ( /\ handlers[s].pc = "populate" /\ handlers'[s].result = "new-bid"
                 /\ sockets[c] = "open" /\ handlers[s].auctionId \in rejoined[c] )
               => /\ Len(inbox'[c]) = Len(inbox[c]) + 1
                  /\ Cardinality(NewBidsOf(c, s)) = 0]_vars
  /\ [](\A c \in Conns :
          /\ rejoined[c] \subseteq rooms[c]
          /\ \A s \in Subs : Cardinality(NewBidsOf(c, s)) <= 1)

\* a connection that joined the auction's room more than once holds exactly
\* one new-bid of each of two accepted bids on that auction
RejoinedMemberGotOneEach ==
  \E c \in Conns : \E s, t \in Subs :
    /\ s # t
    /\ handlers[s].auctionId \in rejoined[c]
    /\ handlers[t].auctionId = handlers[s].auctionId
    /\ Done(s) /\ handlers[s].result = "new-bid"
    /\ Done(t) /\ handlers[t].result = "new-bid"
    /\ Cardinality(NewBidsOf(c, s)) = 1
    /\ Cardinality(NewBidsOf(c, t)) = 1
\* C17: a disconnected connection is in no room, nothing is delivered to it
\* from then on and it stays disconnected however often its close is
\* signalled; a bid accepted after a member has left still ends in new-bid
\* and no bid-error of it reaches anyone.
DisconnectLeavesRooms ==
  /\ [](\A c \in Conns : sockets[c] = "closed" => rooms[c] = {})
  /\ [](\A s \in Subs : (Done(s) /\ handlers[s].result = "new-bid")
          => \A c \in Conns : \A k \in EventsOf(c, s) : inbox[c][k].type # "bid-error")
  /\ [][\A c \in Conns : sockets[c] = "closed"
          => /\ sockets'[c] = "closed"
             /\ rooms'[c] = {}
             /\ inbox'[c] = inbox[c]]_vars

\* a member received the new-bid of one bid and disconnected; the bidder of
\* a later accepted bid, a member throughout, received both in that order
\* and no error, and the later new-bid was not delivered to the one who left
BidAfterMemberLeft ==
  \E s, t \in Subs : \E c \in Conns :
    LET b == handlers[s].conn IN
    /\ s # t /\ c # b
    /\ Done(s) /\ handlers[s].result = "new-bid"
    /\ sockets[c] = "closed" /\ sockets[b] = "open"
    /\ \E i, j \in DOMAIN inbox[b] :
         /\ i < j
         /\ inbox[b][i].type = "new-bid" /\ inbox[b][i].sub = t
         /\ inbox[b][j].type = "new-bid" /\ inbox[b][j].sub = s
    /\ \A k \in DOMAIN inbox[b] : inbox[b][k].type # "bid-error"
    /\ NewBidsOf(c, t) # {}
    /\ NewBidsOf(c, s) = {}
Unverified == (Tokens \ {"signed"}) \cup {"rejected"}

\* C18: a connection is admitted only by the one token check of its
\* handshake and only with a token this server signed; a connection with a
\* missing or invalid token is refused with 'Authentication error', is never
\* admitted later, joins no room and has no place-bid processed, so every
\* processed place-bid comes from a connection whose user id was verified.
OnlyVerifiedConnectionsAct ==
  /\ [](\A c \in Conns :
          /\ sockets[c] \in Tokens \cup {"rejected"}
             => /\ rooms[c] = {}
                /\ \A s \in Subs : handlers[s].pc # "idle" => handlers[s].conn # c
          /\ sockets[c] \in Tokens => inbox[c] = <<>>
          /\ sockets[c] = "rejected"
             => inbox[c] = <<Event("connect_error", 0, 0, 0, "Authentication error")>>)
  /\ [][\A c \in Conns :
          /\ (sockets'[c] = "open" /\ sockets[c] # "open") => sockets[c] = "signed"
          /\ sockets[c] \in Unverified => sockets'[c] \in {sockets[c], "rejected"}
          /\ sockets[c] \in {"open", "closed"} => sockets'[c] \in {"open", "closed"}]_vars

\* one connection was refused at its handshake while a bid of the other,
\* admitted with a signed token, was accepted
RefusedOneAdmittedOtherBid ==
  \E c \in Conns : \E s \in Subs :
    /\ sockets[c] = "rejected"
    /\ handlers[s].conn # c
    /\ Done(s) /\ handlers[s].result = "new-bid"
    /\ sockets[handlers[s].conn] = "open"
\* the place of a submission's write in the order of the auction saves
CommitIndex(s) == CHOOSE k \in DOMAIN commits : commits[k].sub = s

\* C19: the new-bid events of one auction reach each connection in the order
\* in which their bids were committed, so the prices they carry are strictly
\* increasing.
NewBidsInCommitOrder ==
  \A c \in Conns : \A i, j \in DOMAIN inbox[c] :
    ( /\ i < j
      /\ inbox[c][i].type = "new-bid" /\ inbox[c][j].type = "new-bid"
      /\ inbox[c][i].auctionId = inbox[c][j].auctionId )
    => /\ inbox[c][i].currentPrice < inbox[c][j].currentPrice
       /\ CommitIndex(inbox[c][i].sub) < CommitIndex(inbox[c][j].sub)
\* C20: once the submitted bids are all processed, the bidCount stored with
\* an auction is the number of accepted bids written to it, one for each.
BidCountCountsAcceptedBids ==
  AllDone =>
    \A a \in AuctionIds :
      auctions[a].bidCount = Cardinality({k \in DOMAIN commits : commits[k].auctionId = a})
\* C21: of the place-bid messages one client sends within one minute (here
\* within one instant of the clock), at most BidsPerMinute are processed,
\* and at most that many change the auction.
AtMostTenBidsPerMinute ==
  \A c \in Conns :
    /\ Cardinality({s \in DOMAIN handlers :
                      /\ handlers[s].pc # "idle" /\ handlers[s].conn = c
                      /\ handlers[s].result # "Too many bids, please slow down."})
         <= BidsPerMinute
    /\ Cardinality({k \in DOMAIN commits : handlers[commits[k].sub].conn = c})
         <= BidsPerMinute
\* C22: a place-bid that ended in bid-error has left no Bid record and no
\* write of the auction, and a finished place-bid has left a Bid record only
\* together with its write of the auction.
NoHalfAppliedCommit ==
  \A s \in Subs : Done(s) =>
    /\ handlers[s].result # "new-bid"
       => /\ \A b \in bids : b.id # s
          /\ \A k \in DOMAIN commits : commits[k].sub # s
    /\ (\E b \in bids : b.id = s) => (\E k \in DOMAIN commits : commits[k].sub = s)
\* C23: a place-bid whose amount is zero or negative is refused as an invalid
\* bid before the auction is read: its handler never holds a document read
\* from the store and never ends in an answer that rests on such a read.
MalformedBidRefusedUnread ==
  \A s \in Subs :
    (handlers[s].pc # "idle" /\ handlers[s].bidAmount <= 0)
    => /\ handlers[s].pc \notin {"validate", "bidSave", "auctionSave", "populate"}
       /\ Done(s) => handlers[s].result \notin
            {"Auction not found", "Auction is not active", "Auction has ended",
             "Bid must be higher than current price", "new-bid"}
\* C24: every place-bid that does not end in new-bid, a message with no
\* payload included, has sent a bid-error to its submitter if that one is
\* still connected, and no place-bid handler ever closes a connection or
\* stops the handler of another submission.
ErrorsBecomeBidError ==
  /\ [](\A s \in Subs :
          (Done(s) /\ handlers[s].result # "new-bid" /\ sockets[handlers[s].conn] = "open")
          => \E k \in EventsOf(handlers[s].conn, s) :
               inbox[handlers[s].conn][k].type = "bid-error")
  /\ [][\A c \in Conns :
          (sockets[c] = "open" /\ sockets'[c] = "closed") => handlers' = handlers]_vars
\* the Bid records and the price writes of auction b
BidsOn(b) == {x \in bids : x.auction = b}
CommitsOn(b) == {k \in DOMAIN commits : commits[k].auctionId = b}

\* C25: a step of a place-bid on one auction leaves every other auction's
\* document, Bid records and price writes as they are and delivers nothing
\* to a connection that is only in other rooms and is not the submitter;
\* and whatever the handlers of other auctions are doing, the store can
\* answer a handler's pending operation.
BidsOnOtherAuctionsIndependent ==
  /\ [](\A t \in Subs :
          /\ handlers[t].pc = "findById" => ENABLED FindById(t, TRUE)
          /\ handlers[t].pc = "validate" => ENABLED Validate(t)
          /\ handlers[t].pc = "bidSave" => ENABLED BidSave(t, TRUE)
          /\ handlers[t].pc = "auctionSave" => ENABLED AuctionSave(t, TRUE)
          /\ handlers[t].pc = "populate" => ENABLED PopulateAndEmit(t, TRUE))
  /\ [][\A s \in Subs : handlers'[s] # handlers[s] =>
          \A b \in TargetIds \ {handlers'[s].auctionId} :
            /\ auctions'[b] = auctions[b]
            /\ {x \in bids' : x.auction = b} = BidsOn(b)
            /\ {k \in DOMAIN commits' : commits'[k].auctionId = b} = CommitsOn(b)
            /\ \A c \in Conns :
                 (c # handlers'[s].conn /\ handlers'[s].auctionId \notin rooms[c])
                 => inbox'[c] = inbox[c]]_vars

\* bids on both auctions were accepted at different prices while a member
\* of the second auction's room only holds nothing but that auction's event
TwoAuctionsBidApart ==
  \E s, t \in Subs : \E c \in Conns :
    /\ handlers[s].auctionId # handlers[t].auctionId
    /\ Done(s) /\ handlers[s].result = "new-bid"
    /\ Done(t) /\ handlers[t].result = "new-bid"
    /\ auctions[handlers[s].auctionId].currentPrice = handlers[s].bidAmount
    /\ auctions[handlers[t].auctionId].currentPrice = handlers[t].bidAmount
    /\ handlers[s].bidAmount # handlers[t].bidAmount
    /\ rooms[c] = {handlers[t].auctionId}
    /\ c # handlers[s].conn
    /\ Len(inbox[c]) = 1 /\ inbox[c][1].sub = t
\* C26: a disconnect changes no auction and no Bid record; a bid whose
\* auction was saved keeps its Bid record and its price write, and when its
\* new-bid is emitted after the submitter has disconnected, every connected
\* member of the room receives it and the submitter receives nothing.
CommitSurvivesDisconnect ==
  /\ [](\A s \in Subs :
          (handlers[s].pc = "populate" \/ (Done(s) /\ handlers[s].result = "new-bid"))
          => /\ \E x \in bids : x.id = s /\ x.amount = handlers[s].bidAmount
             /\ \E k \in DOMAIN commits : commits[k].sub = s)
  /\ [][\A c \in Conns : (sockets[c] = "open" /\ sockets'[c] = "closed")
          => /\ auctions' = auctions /\ bids' = bids /\ commits' = commits
             /\ handlers' = handlers]_vars
  /\ [][\A s \in Subs :
          ( /\ handlers[s].pc = "populate" /\ handlers'[s].result = "new-bid"
            /\ sockets[handlers[s].conn] = "closed" )
          => /\ auctions' = auctions /\ bids' = bids /\ commits' = commits
             /\ inbox'[handlers[s].conn] = inbox[handlers[s].conn]
             /\ \A c \in Conns :
                  (sockets[c] = "open" /\ handlers[s].auctionId \in rooms[c])
                  => /\ Len(inbox'[c]) = Len(inbox[c]) + 1
                     /\ inbox'[c][Len(inbox'[c])].type = "new-bid"
                     /\ inbox'[c][Len(inbox'[c])].sub = s]_vars

\* the submitter, a room member who had received an earlier new-bid,
\* disconnected before the new-bid of its own accepted bid was emitted: the
\* other member holds both events in order, the submitter only the first,
\* and the Bid record and the price of the bid are stored
SubmitterLeftBeforeEmit ==
  \E s, t \in Subs : \E c \in Conns :
    LET b == handlers[s].conn IN
    /\ s # t /\ c # b
    /\ Done(s) /\ handlers[s].result = "new-bid"
    /\ sockets[b] = "closed" /\ sockets[c] = "open"
    /\ NewBidsOf(b, t) # {} /\ NewBidsOf(b, s) = {}
    /\ \E i, j \in DOMAIN inbox[c] :
         /\ i < j
         /\ inbox[c][i].type = "new-bid" /\ inbox[c][i].sub = t
         /\ inbox[c][j].type = "new-bid" /\ inbox[c][j].sub = s
    /\ \E x \in bids : x.id = s
    /\ auctions[handlers[s].auctionId].currentPrice = handlers[s].bidAmount
    /\ auctions[handlers[s].auctionId].highestBidder = UserOf(b)
\* C27: a step that changes the currentPrice or the highestBidder of a
\* stored auction is the auction save of a place-bid on that auction; a
\* created auction starts at currentPrice = startingPrice with no highest
\* bidder; the steps of PUT leave currentPrice, highestBidder, status,
\* endTime and seller of every auction as they are; and currentPrice is
\* never below startingPrice.
OnlyAcceptedBidChangesPrice ==
  /\ [](\A a \in TargetIds :
          auctions[a].exists => auctions[a].currentPrice >= auctions[a].startingPrice)
  /\ [][\A a \in TargetIds :
          /\ ( /\ auctions[a].exists /\ auctions'[a].exists
               /\ \/ auctions'[a].currentPrice # auctions[a].currentPrice
                  \/ auctions'[a].highestBidder # auctions[a].highestBidder )
             => \E s \in Subs : /\ handlers[s].pc = "auctionSave"
                                /\ handlers'[s].pc = "populate"
                                /\ handlers[s].auctionId = a
          /\ (~auctions[a].exists /\ auctions'[a].exists)
             => /\ auctions'[a].currentPrice = auctions'[a].startingPrice
                /\ auctions'[a].highestBidder = NoUser
          /\ (\E s \in Subs : /\ handlers[s].pc \in {"putFind", "putSave", "putRespond"}
                              /\ handlers'[s] # handlers[s])
             => /\ auctions'[a].exists = auctions[a].exists
                /\ auctions'[a].currentPrice = auctions[a].currentPrice
                /\ auctions'[a].highestBidder = auctions[a].highestBidder
                /\ auctions'[a].status = auctions[a].status
                /\ auctions'[a].endTime = auctions[a].endTime
                /\ auctions'[a].seller = auctions[a].seller]_vars

\* a PUT that read the auction at its starting price has saved its edit
\* after a bid raised the price: the stored document has the new title and
\* the raised price with its bidder
PutSavedAcrossBid ==
  \E s \in Subs :
    LET a == handlers[s].auctionId IN
    /\ handlers[s].pc = "putRespond"
    /\ handlers[s].auction.currentPrice = StartingPrice
    /\ auctions[a].title = "edited"
    /\ auctions[a].currentPrice > StartingPrice
    /\ auctions[a].highestBidder # NoUser
\* a place-bid handler between its insert of the Bid and its emit
MidCommit(s) == handlers[s].pc \in {"bidSave", "auctionSave", "populate"}

\* C28: while no place-bid handler is in the middle of a commit, the stored
\* currentPrice of an auction is the largest amount among its Bid records
\* and highestBidder is the bidder of that record; with no Bid record they
\* are startingPrice and null.
PriceIsHighestRecordedBid ==
  (\A s \in Subs : ~MidCommit(s)) =>
    \A a \in AuctionIds :
      LET recorded == {x \in bids : x.auction = a} IN
      auctions[a].exists =>
        IF recorded = {}
          THEN /\ auctions[a].currentPrice = auctions[a].startingPrice
               /\ auctions[a].highestBidder = NoUser
          ELSE \E x \in recorded :
                 /\ \A y \in recorded : y.amount <= x.amount
                 /\ auctions[a].currentPrice = x.amount
                 /\ auctions[a].highestBidder = x.bidder
\* the auctions whose DELETE request has completed
Deleted == {handlers[s].auctionId : s \in {t \in Subs : Done(t) /\ handlers[t].result = "deleted"}}

\* C29: once the DELETE of an auction has completed, no Bid record names
\* that auction and no new-bid for it is emitted any more, whatever
\* place-bid handlers were running when it was deleted.
NoTraceOfDeletedAuction ==
  /\ [](\A x \in bids : x.auction \notin Deleted)
  /\ [][\A s \in Subs :
          (handlers[s].pc = "populate" /\ handlers'[s].result = "new-bid")
          => handlers[s].auctionId \notin Deleted]_vars
\* C30: the check of a PUT or DELETE request answers 404 for an id with no
\* document and 403 for a requester who is neither the auction's seller nor
\* the admin, changing no auction and no Bid record; only a request of the
\* seller or the admin goes on to its writes.
OnlySellerOrAdminModifies ==
  /\ [](\A s \in Subs :
          ( /\ handlers[s].pc \in {"putSave", "putRespond", "delBids", "delDoc"}
            /\ auctions[handlers[s].auctionId].exists )
          => \/ handlers[s].user = auctions[handlers[s].auctionId].seller
             \/ handlers[s].user = Admin)
  /\ [][\A s \in Subs :
          (handlers[s].pc \in {"putFind", "delFind"} /\ handlers'[s] # handlers[s])
          => LET doc == auctions[handlers[s].auctionId]
                 u == handlers[s].user
             IN /\ auctions' = auctions /\ bids' = bids
                /\ \/ handlers'[s].pc = "done" /\ handlers'[s].result = "500"
                   \/ IF ~doc.exists
                        THEN handlers'[s].pc = "done" /\ handlers'[s].result = "404"
                        ELSE IF u # doc.seller /\ u # Admin
                          THEN handlers'[s].pc = "done" /\ handlers'[s].result = "403"
                          ELSE handlers'[s].pc \in {"putSave", "delBids"}]_vars
  /\ [][\A s \in Subs :
          (handlers[s].pc = "done" /\ handlers[s].result \in {"403", "404"})
          => handlers'[s] = handlers[s]]_vars

\* a bidder's request on an auction that has a Bid record was answered 403
\* and the auction and the record are still stored
BidderRequestRefused ==
  \E s \in Subs :
    LET a == handlers[s].auctionId IN
    /\ Done(s) /\ handlers[s].result = "403"
    /\ handlers[s].user = UserOf(1)
    /\ auctions[a].exists /\ auctions[a].title = "created"
    /\ auctions[a].currentPrice > StartingPrice
    /\ BidsOn(a) # {}
====
